---- MODULE Spec2Model ----
(***************************************************************************)
(* A model of the log pipeline's core:                                     *)
(*   - logs/gateway-normalize: ProcessorFleet::normalize, Processor::apply, *)
(*     SplitProcessor::apply / load_audit_log and the audit-log RwLock     *)
(*     (specification Spec), concurrent passes on one fleet (SpecFleet)    *)
(*     and ProcessingError::is_unexpected (SpecLaw);                       *)
(*   - logs/submission elasticsearch client: ensure_index_exists           *)
(*     (specifications SpecIndex and SpecClassify), ping (SpecPing) and    *)
(*     bulk / convert_to_status (specifications SpecBulk and SpecProject). *)
(***************************************************************************)
EXTENDS Integers, Sequences, FiniteSets, TLC

VARIABLES
    \* ---- gateway-normalize: one processing pass ----
    processors,      \* ProcessorFleet.processors: tag -> Processor
    api,             \* what the audit-log search of the platform answers
    event_type,      \* event.inner.event_type of the event being normalized
    pc,              \* position of normalize: "start", "acquire", "join", "done"
    audit_log_lock,  \* the RwLock: [value, write_held]
    arms,            \* the futures joined by try_join! (0 = load_audit_log)
    cur,             \* the arm the running poll of the join reaches next
    ready,           \* arms whose awaited I/O has completed
    result,          \* what normalize returned
    applied,         \* tags of the processors whose apply was called
    returned,        \* what that apply returned to normalize
    \* ---- submission: ensure_index_exists ----
    indices,         \* the document store: index name -> settings
    history,         \* the ensure_index_exists calls made so far
    response,        \* the response of the call (ensure_index_exists, ping)
    classified,      \* the result of classifying it
    \* ---- submission: bulk ----
    operations,      \* the operations handed to bulk
    sent,            \* the request body lines bulk sent
    bulk_response,   \* what the transport returned to bulk
    bulk_result,     \* what bulk returned
    warnings,        \* slog::warn! records of convert_to_status
    \* ---- gateway-normalize: concurrent passes on one fleet ----
    running,         \* the pass whose step is being taken (its state is above)
    parked,          \* the state of every other pass in flight
    \* ---- gateway-normalize: ProcessingError::is_unexpected ----
    error,           \* the ProcessingError is_unexpected is called on
    unexpected       \* what it returned

normVars == <<processors, api, event_type, pc, audit_log_lock, arms, cur, ready,
              result, applied, returned>>
indexVars == <<indices, history, response, classified>>
bulkVars == <<operations, sent, bulk_response, bulk_result, warnings>>
fleetVars == <<running, parked>>
lawVars == <<error, unexpected>>
vars == <<normVars, indexVars, bulkVars, fleetVars, lawVars>>

\* ---------------------------------------------------------------- bounds
NumFields == 3
MaxCalls == 4
MaxBody == 3
MaxItems == 2

\* ---------------------------------------------------------------- values
None == [some |-> FALSE]
Some(v) == [some |-> TRUE, v |-> v]

Pending == [tag |-> "Pending"]
Ok(v) == [tag |-> "Ok", v |-> v]
Err(e) == [tag |-> "Err", err |-> e]

\* enum ProcessingError
SubProcessorNotFound(t) == [kind |-> "SubProcessorNotFound", arg |-> t]
FatalSourceError(cause) == [kind |-> "FatalSourceError", arg |-> cause]
Drop == [kind |-> "Drop", arg |-> ""]
NoAuditLogEntry(t) == [kind |-> "NoAuditLogEntry", arg |-> t]

\* The field sources of SplitProcessor, in the order try_join! lists them
\* after load_audit_log.
FieldNames == <<"event_type", "id_params", "timestamp", "reason", "channel",
                "agent", "subject", "auxiliary", "content">>

Fields == 1..NumFields
Loader == 0
Idle == NumFields + 1

\* ------------------------------------------------- gateway-normalize: inputs
SplitTag == "MEMBER_BAN_ADD"
DirectTag == "MESSAGE_CREATE"
Registered == {SplitTag, DirectTag}
EventTypes == Registered \cup {"UNKNOWN", "TYPING_START"}

\* A Source<T> by what its consume does: extract from the gateway JSON, read
\* the audit-log latch, or await I/O of its own; and whether its extraction
\* (or I/O) fails.
SourceKinds == {"gateway", "audit_log", "io"}
SourceShapes == [kind : SourceKinds, fails : BOOLEAN]
PlainSource == [kind |-> "gateway", fails |-> FALSE]

SplitProcessors ==
    [type : {"Split"}, audit_log : BOOLEAN, fields : [Fields -> SourceShapes]]
DirectProcessors ==
    [type : {"Direct"}, audit_log : {FALSE}, fields : [{1} -> SourceShapes]]
DefaultSplit ==
    [type |-> "Split", audit_log |-> TRUE, fields |-> [i \in Fields |-> PlainSource]]
DefaultDirect ==
    [type |-> "Direct", audit_log |-> FALSE, fields |-> [i \in {1} |-> PlainSource]]

\* twilight_model AuditLogEntry, by its id and by whether serde can serialize it
EntryIds == {7, 8}
Entries == [id : EntryIds, serializable : BOOLEAN]
\* Result<Option<AuditLogEntry>, ProcessingError> of AuditLogSource::consume
SearchFailed == [ok |-> FALSE, entry |-> None]
NoMatch == [ok |-> TRUE, entry |-> None]
Match(e) == [ok |-> TRUE, entry |-> Some(e)]
SearchAnswers == {SearchFailed, NoMatch} \cup {Match(e) : e \in Entries}
FirstEntry == [id |-> 7, serializable |-> TRUE]

\* ------------------------------------------------- gateway-normalize: helpers
NewArm == [st |-> "new", val |-> None, seen |-> None]
NoLock == [value |-> None, write_held |-> FALSE]
Finished == {"ok", "err"}

Processor == processors[event_type]
IsSplit == event_type \in DOMAIN processors /\ Processor.type = "Split"
IsDirect == event_type \in DOMAIN processors /\ Processor.type = "Direct"
LastArm == IF Processor.type = "Split" THEN NumFields ELSE 1
FirstArm == IF Processor.type = "Split" THEN Loader ELSE 1

\* serde_json::to_value(&audit_log_entry)
ToValue(entry) ==
    IF entry.serializable THEN Ok([serialized_id |-> entry.id])
    ELSE Err(FatalSourceError("could not serialize audit log entry to JSON"))

\* Mutant: the write handle is taken whether or not a source is declared.
AcquireWriteAlways(p) == TRUE

\* SplitProcessor::apply: write_lock is Some exactly when self.audit_log is
AcquireWrite(p) == p.audit_log

\* Context.audit_log_entry: Some(LockReader) in SplitProcessor::apply,
\* None in the Direct arm of Processor::apply
HasReader(p) == p.type = "Split"

\* Mutant: a read that does not wait for the write handle.
ReadGrantedAlways(lock) == TRUE

\* LockReader::read: the RwLock grants a read handle only while no write
\* handle is held
ReadGranted(lock) == ~lock.write_held

\* anyhow::Error, by its message
Anyhow(msg) == [kind |-> "anyhow", arg |-> msg]
NoReaderMsg == "no audit log reader lock"
NoEntryMsg == "no audit log entry was parsed"

\* Path::extract with the source's extractor on a root JSON value: the typed
\* field value (which records the audit-log JSON it was read from), or the
\* extractor's error.
Extract(shape, name, root) ==
    IF shape.fails THEN Err(Anyhow(name))
    ELSE Ok(Some([field |-> name, json |-> root]))

\* Mutant: the gateway extraction runs on the latch's JSON when there is one.
ContextGatewayFromLatch(shape, name) ==
    Extract(shape, name,
            IF audit_log_lock.value.some THEN Some(audit_log_lock.value.v.json)
            ELSE Some([serialized_id |-> 0]))

\* Context::gateway: synchronous, from self.source alone
ContextGateway(shape, name) == Extract(shape, name, None)

\* Mutant: an uninstalled entry is not reported, the extractor runs on nothing.
ContextAuditLogNoCheck(p, lock, shape, name) ==
    IF ~HasReader(p) THEN Err(Anyhow(NoReaderMsg))
    ELSE IF ~ReadGranted(lock) THEN Pending
    ELSE Extract(shape, name, IF lock.value.some THEN Some(lock.value.v.json) ELSE None)

\* Mutant: the read does not wait for the write handle to be dropped.
ContextAuditLogNoWait(p, lock, shape, name) ==
    IF ~HasReader(p) THEN Err(Anyhow(NoReaderMsg))
    ELSE IF ~lock.value.some THEN Err(Anyhow(NoEntryMsg))
    ELSE Extract(shape, name, Some(lock.value.v.json))

\* Mutant: without a reader the read waits, as if a lock were held.
ContextAuditLogWaitsWithoutReader(p, lock, shape, name) ==
    IF ~HasReader(p) THEN Pending
    ELSE IF ~ReadGranted(lock) THEN Pending
    ELSE IF ~lock.value.some THEN Err(Anyhow(NoEntryMsg))
    ELSE Extract(shape, name, Some(lock.value.v.json))

\* Context::audit_log: no reader => error; read().await => Pending while the
\* write handle is held; installed value None => error; else extract from
\* the entry's JSON.
ContextAuditLog(p, lock, shape, name) ==
    IF ~HasReader(p) THEN Err(Anyhow(NoReaderMsg))
    ELSE IF ~ReadGranted(lock) THEN Pending
    ELSE IF ~lock.value.some THEN Err(Anyhow(NoEntryMsg))
    ELSE Extract(shape, name, Some(lock.value.v.json))

\* Source::consume turns the anyhow error of its extraction into a
\* ProcessingError: a missing audit-log entry is NoAuditLogEntry(event_type),
\* anything else is fatal.
SourceError(e, tag) ==
    IF e.arg = NoEntryMsg THEN NoAuditLogEntry(tag) ELSE FatalSourceError(e.arg)

\* Mutant: a found entry is reported but never installed in the lock.
LoadAuditLogNoInstall(answer, lock) ==
    [out |-> IF ~answer.ok THEN Err(FatalSourceError("audit log search failed"))
             ELSE IF answer.entry.some /\ ~answer.entry.v.serializable
             THEN Err(FatalSourceError("could not serialize audit log entry to JSON"))
             ELSE Ok(None),
     lock |-> [value |-> lock.value, write_held |-> FALSE]]

\* Mutant: a serialization failure is swallowed, the loader returns Ok.
LoadAuditLogSwallowsFailure(answer, lock) ==
    [out |-> IF ~answer.ok THEN Err(FatalSourceError("audit log search failed"))
             ELSE Ok(None),
     lock |-> [value |-> IF answer.ok /\ answer.entry.some
                            /\ answer.entry.v.serializable
                         THEN Some([entry |-> answer.entry.v,
                                    json |-> [serialized_id |-> answer.entry.v.id]])
                         ELSE lock.value,
               write_held |-> FALSE]]

\* Mutant: the write handle outlives a loader that found no match.
LoadAuditLogKeepsHandle(answer, lock) ==
    IF ~answer.ok
    THEN [out |-> Err(FatalSourceError("audit log search failed")),
          lock |-> [value |-> lock.value, write_held |-> FALSE]]
    ELSE IF ~answer.entry.some
    THEN [out |-> Ok(None), lock |-> lock]
    ELSE IF ~answer.entry.v.serializable
    THEN [out |-> Err(FatalSourceError("could not serialize audit log entry to JSON")),
          lock |-> [value |-> lock.value, write_held |-> FALSE]]
    ELSE [out |-> Ok(None),
          lock |-> [value |-> Some([entry |-> answer.entry.v,
                                    json |-> [serialized_id |-> answer.entry.v.id]]),
                    write_held |-> FALSE]]

\* Mutant: a search without match makes the loader fail.
LoadAuditLogNoMatchFails(answer, lock) ==
    IF ~answer.ok
    THEN [out |-> Err(FatalSourceError("audit log search failed")),
          lock |-> [value |-> lock.value, write_held |-> FALSE]]
    ELSE IF ~answer.entry.some
    THEN [out |-> Err(NoAuditLogEntry(event_type)),
          lock |-> [value |-> lock.value, write_held |-> FALSE]]
    ELSE IF ~answer.entry.v.serializable
    THEN [out |-> Err(FatalSourceError("could not serialize audit log entry to JSON")),
          lock |-> [value |-> lock.value, write_held |-> FALSE]]
    ELSE [out |-> Ok(None),
          lock |-> [value |-> Some([entry |-> answer.entry.v,
                                    json |-> [serialized_id |-> answer.entry.v.id]]),
                    write_held |-> FALSE]]

\* SplitProcessor::load_audit_log once audit_log_source.consume has answered:
\* its result and the lock as it leaves it (the write handle is dropped on
\* every return).
LoadAuditLog(answer, lock) ==
    LET released(v) == [value |-> v, write_held |-> FALSE] IN
    IF ~answer.ok
    THEN [out |-> Err(FatalSourceError("audit log search failed")),
          lock |-> released(lock.value)]
    ELSE IF ~answer.entry.some
    THEN [out |-> Ok(None), lock |-> released(lock.value)]
    ELSE LET json == ToValue(answer.entry.v) IN
         IF json.tag = "Err"
         THEN [out |-> json, lock |-> released(lock.value)]
         ELSE [out |-> Ok(None),
               lock |-> released(Some([entry |-> answer.entry.v, json |-> json.v]))]

\* Mutant: the id of the captured entry is not carried over.
AssembleNoId(lockValue, done) ==
    [audit_log_id |-> None,
     source |-> [gateway |-> Some("source"),
                 audit_log |-> IF lockValue.some THEN Some(lockValue.v.json) ELSE None],
     fields |-> [i \in Fields |-> done[i].val.v]]

\* Mutant: an entry that arrived after the first poll is not attached.
AssembleByArrival(lockValue, done) ==
    [audit_log_id |-> IF lockValue.some /\ Loader \notin ready
                      THEN Some(lockValue.v.entry.id) ELSE None,
     source |-> [gateway |-> Some("source"),
                 audit_log |-> IF lockValue.some THEN Some(lockValue.v.json) ELSE None],
     fields |-> [i \in Fields |-> done[i].val.v]]

\* SplitProcessor::apply after the join: the NormalizedEvent, its audit-log
\* id and JSON taken from the consumed lock.
Assemble(lockValue, done) ==
    [audit_log_id |-> IF lockValue.some THEN Some(lockValue.v.entry.id) ELSE None,
     source |-> [gateway |-> Some("source"),
                 audit_log |-> IF lockValue.some THEN Some(lockValue.v.json) ELSE None],
     fields |-> [i \in Fields |-> done[i].val.v]]

\* The NormalizedEvent a Direct source yields by itself
DirectEvent(val) ==
    [audit_log_id |-> None,
     source |-> [gateway |-> Some("source"), audit_log |-> None],
     fields |-> [i \in {1} |-> val.v]]

\* Mutant: every error of the processor is reported as a routing miss.
NormalizeReturnMiss(r) ==
    IF r.tag = "Err" THEN Err(SubProcessorNotFound(r.err.arg)) ELSE r

\* ProcessorFleet::normalize returns what processor.apply(..).await returned
NormalizeReturn(r) == r

\* Mutant: join! in place of try_join!, errors do not end the join.
JoinNeverFails(out) == FALSE

\* Mutant: only an error of the first arm ends the join at once.
JoinFailsLoaderOnly(out) == out.tag = "Err" /\ cur = Loader

\* try_join!: an arm that returns Err ends the join with that error at once
JoinFails(out) == out.tag = "Err"

\* Mutant: on an error the join returns but leaves its unfinished arms
\* (and a held write handle) behind.
JoinAfterDetached(i, arm, lock, out) ==
    LET arms1 == [arms EXCEPT ![i] = arm] IN
    IF JoinFails(out)
    THEN /\ arms' = arms1
         /\ audit_log_lock' = lock
         /\ returned' = Err(out.err)
         /\ result' = NormalizeReturn(returned')
         /\ pc' = "done"
         /\ cur' = Idle
    ELSE /\ arms' = arms1
         /\ audit_log_lock' = lock
         /\ IF i = LastArm /\ \A j \in DOMAIN arms1 : arms1[j].st = "ok"
            THEN /\ returned' = Ok(IF Processor.type = "Split"
                                   THEN Assemble(lock.value, arms1)
                                   ELSE DirectEvent(arms1[1].val))
                 /\ result' = NormalizeReturn(returned')
                 /\ pc' = "done"
                 /\ cur' = Idle
            ELSE /\ cur' = IF i = LastArm THEN Idle ELSE i + 1
                 /\ UNCHANGED <<pc, result, returned>>

\* What the poll of arm i did to the join (try_join! in SplitProcessor::apply,
\* the single await in Processor::apply): on Err everything unfinished is
\* dropped (a held write handle with it) and apply returns the error; when
\* the last arm of the round leaves every arm Ok the event is assembled;
\* otherwise the poll goes on to the next arm, or returns Pending.
JoinAfter(i, arm, lock, out) ==
    LET arms1 == [arms EXCEPT ![i] = arm] IN
    IF JoinFails(out)
    THEN /\ arms' = [j \in DOMAIN arms1 |->
                       IF arms1[j].st \in Finished THEN arms1[j]
                       ELSE [arms1[j] EXCEPT !.st = "dropped"]]
         /\ audit_log_lock' = [lock EXCEPT !.write_held = FALSE]
         /\ returned' = Err(out.err)
         /\ result' = NormalizeReturn(returned')
         /\ pc' = "done"
         /\ cur' = Idle
    ELSE /\ arms' = arms1
         /\ audit_log_lock' = lock
         /\ IF i = LastArm /\ \A j \in DOMAIN arms1 : arms1[j].st = "ok"
            THEN /\ returned' = Ok(IF Processor.type = "Split"
                                   THEN Assemble(lock.value, arms1)
                                   ELSE DirectEvent(arms1[1].val))
                 /\ result' = NormalizeReturn(returned')
                 /\ pc' = "done"
                 /\ cur' = Idle
            ELSE /\ cur' = IF i = LastArm THEN Idle ELSE i + 1
                 /\ UNCHANGED <<pc, result, returned>>

\* ------------------------------------------------- gateway-normalize: actions
NoArms == [j \in {} |-> NewArm]

\* The state of the pass before normalize is called on one event: a fleet
\* after registration, an event, and the answer the platform will give to
\* the audit-log search.
InitNormalize ==
    /\ event_type \in EventTypes
    /\ \E sp \in SplitProcessors, dp \in DirectProcessors :
          /\ event_type # SplitTag => sp = DefaultSplit
          /\ event_type # DirectTag => dp = DefaultDirect
          /\ processors = [t \in Registered |-> IF t = SplitTag THEN sp ELSE dp]
    /\ api \in SearchAnswers
    /\ event_type # SplitTag => api = NoMatch
    /\ ~processors[SplitTag].audit_log => api \in {NoMatch, Match(FirstEntry)}
    /\ pc = "start"
    /\ audit_log_lock = NoLock
    /\ arms = NoArms
    /\ cur = Idle
    /\ ready = {}
    /\ result = Pending
    /\ applied = {}
    /\ returned = Pending

NormalizeOff ==
    /\ event_type = "UNKNOWN"
    /\ processors = [t \in Registered |-> IF t = SplitTag THEN DefaultSplit ELSE DefaultDirect]
    /\ api = NoMatch
    /\ pc = "off"
    /\ audit_log_lock = NoLock
    /\ arms = NoArms
    /\ cur = Idle
    /\ ready = {}
    /\ result = Pending
    /\ applied = {}
    /\ returned = Pending

\* ProcessorFleet::normalize up to the first poll of the processor's future:
\* the lookup, and for a hit Processor::apply (Direct: a Context without
\* reader; Split: the RwLock, the Context, the write handle when an
\* AuditLogSource is declared, and the futures of try_join!).
Normalize ==
    /\ pc = "start"
    /\ UNCHANGED <<processors, api, event_type, ready, indexVars, bulkVars, fleetVars, lawVars>>
    /\ IF event_type \in DOMAIN processors
       THEN /\ applied' = applied \cup {event_type}
            /\ pc' = "join"
            /\ UNCHANGED <<result, returned>>
            /\ cur' = FirstArm
            /\ IF Processor.type = "Split"
               THEN /\ audit_log_lock' = [value |-> None,
                                          write_held |-> AcquireWrite(Processor)]
                    /\ arms' = [j \in {Loader} \cup Fields |-> NewArm]
               ELSE /\ audit_log_lock' = audit_log_lock
                    /\ arms' = [j \in {1} |-> NewArm]
       ELSE /\ result' = Err(SubProcessorNotFound(event_type))
            /\ pc' = "done"
            /\ UNCHANGED <<audit_log_lock, arms, cur, applied, returned>>

\* One poll of the load_audit_log future by the join.
PollLoader ==
    /\ pc = "join" /\ cur = Loader /\ Loader \in DOMAIN arms
    /\ UNCHANGED <<processors, api, event_type, ready, applied, indexVars, bulkVars, fleetVars, lawVars>>
    /\ LET a == arms[Loader]
           finish == LET r == LoadAuditLog(api, audit_log_lock) IN
                     JoinAfter(Loader,
                               [a EXCEPT !.st = IF r.out.tag = "Ok" THEN "ok" ELSE "err"],
                               r.lock, r.out)
       IN
       \/ /\ a.st = "ok"        \* finished in an earlier poll: not polled again
          /\ JoinAfter(Loader, a, audit_log_lock, Pending)
       \/ /\ a.st = "new" /\ ~Processor.audit_log      \* no source declared
          /\ JoinAfter(Loader, [a EXCEPT !.st = "ok"], audit_log_lock, Ok(None))
       \/ /\ a.st = "new" /\ Processor.audit_log       \* the search is issued
          /\ \/ JoinAfter(Loader, [a EXCEPT !.st = "searching"], audit_log_lock, Pending)
             \/ finish                                  \* and answers at once
       \/ /\ a.st = "searching"
          /\ IF Loader \in ready THEN finish
             ELSE JoinAfter(Loader, a, audit_log_lock, Pending)

\* One poll of the consume future of field source i by the join.
PollSource(i) ==
    /\ pc = "join" /\ cur = i /\ i \in DOMAIN arms /\ i # Loader
    /\ UNCHANGED <<processors, api, event_type, ready, applied, indexVars, bulkVars, fleetVars, lawVars>>
    /\ LET a == arms[i]
           shape == Processor.fields[i]
           name == FieldNames[i]
           finish(r, a1) ==
               IF r.tag = "Ok"
               THEN JoinAfter(i, [a1 EXCEPT !.st = "ok", !.val = r.v], audit_log_lock, r)
               ELSE JoinAfter(i, [a1 EXCEPT !.st = "err"], audit_log_lock,
                              Err(SourceError(r.err, event_type)))
       IN
       \/ /\ a.st = "ok"        \* finished in an earlier poll: not polled again
          /\ JoinAfter(i, a, audit_log_lock, Pending)
       \/ /\ a.st = "new" /\ shape.kind = "gateway"
          /\ finish(ContextGateway(shape, name), a)
       \/ /\ a.st = "new" /\ shape.kind = "io"
          /\ \/ JoinAfter(i, [a EXCEPT !.st = "io"], audit_log_lock, Pending)
             \/ finish(Extract(shape, name, None), a)
       \/ /\ a.st = "io"
          /\ IF i \in ready THEN finish(Extract(shape, name, None), a)
             ELSE JoinAfter(i, a, audit_log_lock, Pending)
       \/ /\ a.st \in {"new", "waiting"} /\ shape.kind = "audit_log"
          /\ LET r == ContextAuditLog(Processor, audit_log_lock, shape, name) IN
             IF r.tag = "Pending"
             THEN JoinAfter(i, [a EXCEPT !.st = "waiting"], audit_log_lock, Pending)
             ELSE finish(r, [a EXCEPT !.seen =
                               IF HasReader(Processor)
                               THEN Some([value |-> audit_log_lock.value,
                                          loader |-> arms[Loader].st])
                               ELSE None])

\* The platform answers the audit-log search.
SearchResponds ==
    /\ pc = "join" /\ Loader \in DOMAIN arms
    /\ arms[Loader].st = "searching" /\ Loader \notin ready
    /\ ready' = ready \cup {Loader}
    /\ UNCHANGED <<processors, api, event_type, pc, audit_log_lock, arms, cur,
                   result, applied, returned, indexVars, bulkVars, fleetVars, lawVars>>

\* The I/O a field source awaits completes.
IoCompletes(i) ==
    /\ pc = "join" /\ i \in DOMAIN arms /\ i # Loader
    /\ arms[i].st = "io" /\ i \notin ready
    /\ ready' = ready \cup {i}
    /\ UNCHANGED <<processors, api, event_type, pc, audit_log_lock, arms, cur,
                   result, applied, returned, indexVars, bulkVars, fleetVars, lawVars>>

Runnable(j) ==
    \/ arms[j].st \in {"searching", "io"} /\ j \in ready
    \/ arms[j].st = "waiting" /\ ReadGranted(audit_log_lock)

\* A waker fired: the executor polls the join again, from its first arm.
Wake ==
    /\ pc = "join" /\ cur = Idle
    /\ \E j \in DOMAIN arms : Runnable(j)
    /\ cur' = FirstArm
    /\ UNCHANGED <<processors, api, event_type, pc, audit_log_lock, arms, ready,
                   result, applied, returned, indexVars, bulkVars, fleetVars, lawVars>>


\* ------------------------------------------------- gateway-normalize: concurrent passes
\* Several normalize calls in flight on one &ProcessorFleet.  The executor
\* takes one step of one pass at a time; the variables of a pass hold the
\* state of the pass that steps, the other passes are parked.
NumPasses == 2
Passes == 1..NumPasses

\* What one normalize call owns: its event (and the platform's answer for
\* it), and the locals of Processor::apply / SplitProcessor::apply.  The
\* fleet (processors) is not part of it: it is shared by reference.
Current ==
    [api |-> api, event_type |-> event_type, pc |-> pc,
     audit_log_lock |-> audit_log_lock, arms |-> arms, cur |-> cur,
     ready |-> ready, result |-> result, applied |-> applied,
     returned |-> returned]

\* the state of every pass in flight
PassStates == [p \in Passes |-> IF p = running THEN Current ELSE parked[p]]

\* Mutant: one lock for the whole fleet, used by every pass.
SharedLock(saved) == audit_log_lock

\* The lock a pass works on is the one its own apply created
\* (let audit_log_lock = RwLock::new(None))
OwnLock(saved) == saved.audit_log_lock

\* The fleets of the concurrent passes: the Split processor has one reader
\* of the audit-log path and gateway sources, the last of which may fail.
FleetProcessors ==
    {[t \in Registered |->
        IF t = SplitTag
        THEN [type |-> "Split", audit_log |-> TRUE,
              fields |-> [i \in Fields |->
                            IF i = 1 THEN [kind |-> "audit_log", fails |-> FALSE]
                            ELSE [kind |-> "gateway", fails |-> (i = NumFields /\ f)]]]
        ELSE DefaultDirect] : f \in BOOLEAN}
FleetAnswers == {NoMatch} \cup {Match([id |-> n, serializable |-> TRUE]) : n \in EntryIds}

\* A pass before its normalize call: its event and the platform's answer.
NewPass(tag, answer) ==
    [api |-> answer, event_type |-> tag, pc |-> "start", audit_log_lock |-> NoLock,
     arms |-> NoArms, cur |-> Idle, ready |-> {}, result |-> Pending,
     applied |-> {}, returned |-> Pending]
NewPasses ==
    {NewPass(SplitTag, a) : a \in FleetAnswers} \cup {NewPass(DirectTag, NoMatch)}

\* The passes are interchangeable, so their events are taken in one fixed
\* order (Direct, no match, then by entry id).
Rank(new) ==
    IF new.event_type = DirectTag THEN 0
    ELSE IF ~new.api.entry.some THEN 1 ELSE new.api.entry.v.id

FleetInit ==
    /\ processors \in FleetProcessors
    /\ running = 1
    /\ \E new \in NewPasses :
          /\ api = new.api
          /\ event_type = new.event_type
          /\ pc = new.pc
          /\ audit_log_lock = new.audit_log_lock
          /\ arms = new.arms
          /\ cur = new.cur
          /\ ready = new.ready
          /\ result = new.result
          /\ applied = new.applied
          /\ returned = new.returned
    /\ parked \in [Passes \ {1} -> NewPasses]
    /\ \A p, q \in Passes : p < q => Rank(PassStates[p]) <= Rank(PassStates[q])

\* The executor turns to another pass that has not returned yet: the next
\* step is a step of pass p.
Switch(p) ==
    /\ p \in DOMAIN parked
    /\ parked[p].pc # "done"
    /\ LET saved == parked[p] IN
          /\ api' = saved.api
          /\ event_type' = saved.event_type
          /\ pc' = saved.pc
          /\ audit_log_lock' = OwnLock(saved)
          /\ arms' = saved.arms
          /\ cur' = saved.cur
          /\ ready' = saved.ready
          /\ result' = saved.result
          /\ applied' = saved.applied
          /\ returned' = saved.returned
    /\ parked' = [q \in (DOMAIN parked \ {p}) \cup {running} |->
                    IF q = running THEN Current ELSE parked[q]]
    /\ running' = p
    /\ UNCHANGED <<processors, indexVars, bulkVars, lawVars>>

\* ------------------------------------------------- gateway-normalize: is_unexpected
\* The values of enum ProcessingError: its payloads range over event tags
\* and over the messages of the fatal errors.
KnownTags ==
    EventTypes \cup
    {"CHANNEL_CREATE", "CHANNEL_UPDATE", "CHANNEL_DELETE", "CHANNEL_PINS_UPDATE",
     "GUILD_UPDATE", "GUILD_EMOJIS_UPDATE", "GUILD_INTEGRATIONS_UPDATE",
     "MEMBER_ADD", "MEMBER_REMOVE", "MEMBER_UPDATE", "MEMBER_BAN_REMOVE",
     "ROLE_CREATE", "ROLE_UPDATE", "ROLE_DELETE", "INVITE_CREATE", "INVITE_DELETE",
     "MESSAGE_UPDATE", "MESSAGE_DELETE", "MESSAGE_DELETE_BULK", "REACTION_ADD"}
Causes ==
    {FieldNames[i] : i \in DOMAIN FieldNames} \cup
    {NoReaderMsg, "audit log search failed",
     "could not serialize audit log entry to JSON"}
ProcessingErrors ==
    {Drop} \cup {SubProcessorNotFound(t) : t \in KnownTags}
           \cup {FatalSourceError(c) : c \in Causes}
           \cup {NoAuditLogEntry(t) : t \in KnownTags}

\* Mutant: a missing audit-log entry is treated as nominal too.
IsUnexpectedQuietAbsence(err) == err.kind \notin {"Drop", "NoAuditLogEntry"}

\* ProcessingError::is_unexpected: !matches!(self, Self::Drop)
IsUnexpected(err) == ~(err.kind = "Drop")

LawInit ==
    /\ error \in {Some(err) : err \in ProcessingErrors}
    /\ unexpected = Pending

\* One call of is_unexpected on one error value.
CallIsUnexpected ==
    /\ error.some /\ unexpected = Pending
    /\ unexpected' = Ok(IsUnexpected(error.v))
    /\ UNCHANGED <<error, normVars, indexVars, bulkVars, fleetVars>>

\* ------------------------------------------------- submission: ensure_index_exists
SeqsUpTo(S, n) == UNION {[1..k -> S] : k \in 0..n}

\* StatusCode::BAD_REQUEST
BAD_REQUEST == 400
\* StatusCode::is_success
IsSuccess(code) == code >= 200 /\ code < 300

\* A response body is a text; the sentinel the code looks for is the text
\* resource_already_exists_exception, here two tokens long so that
\* containment has to find it contiguous and whole.
BodyTokens == {"resource_already_exists", "_exception", "index_not_found"}
Sentinel == <<"resource_already_exists", "_exception">>

\* str::contains
Contains(text, pat) ==
    \E k \in 0..(Len(text) - Len(pat)) : SubSeq(text, k + 1, k + Len(pat)) = pat

\* What self.inner.send(..).await gives: a transport error, or a response
\* with a status and a body that response.text() can read or not.
TransportError == [transported |-> FALSE]
Unreadable == [readable |-> FALSE]
Readable(text) == [readable |-> TRUE, text |-> text]
Received(status, body) == [transported |-> TRUE, status |-> status, body |-> body]
Statuses == {199, 200, 201, 299, 300, 400, 404, 500}
Bodies == {Unreadable} \cup {Readable(t) : t \in SeqsUpTo(BodyTokens, MaxBody)}
Responses == {TransportError} \cup {Received(c, b) : c \in Statuses, b \in Bodies}

\* enum EnsureIndexExistsError
Failed == [kind |-> "Failed"]
BodyReadFailure == [kind |-> "BodyReadFailure"]
ErrorStatusCode(code) == [kind |-> "ErrorStatusCode", code |-> code]

\* Mutant: the sentinel is looked for whatever the status.
EnsureIndexExistsResultAnyStatus(resp) ==
    IF ~resp.transported THEN Err(Failed)
    ELSE IF IsSuccess(resp.status) THEN Ok("CreatedSuccessfully")
    ELSE IF ~resp.body.readable THEN Err(BodyReadFailure)
    ELSE IF Contains(resp.body.text, Sentinel) THEN Ok("AlreadyExists")
    ELSE Err(ErrorStatusCode(resp.status))

\* Mutant: an existing index is reported as an error status.
EnsureIndexExistsResultStrict(resp) ==
    IF ~resp.transported THEN Err(Failed)
    ELSE IF IsSuccess(resp.status) THEN Ok("CreatedSuccessfully")
    ELSE IF ~resp.body.readable THEN Err(BodyReadFailure)
    ELSE Err(ErrorStatusCode(resp.status))

\* Client::ensure_index_exists: the match on create_future.await
EnsureIndexExistsResult(resp) ==
    IF ~resp.transported THEN Err(Failed)
    ELSE IF IsSuccess(resp.status) THEN Ok("CreatedSuccessfully")
    ELSE IF ~resp.body.readable THEN Err(BodyReadFailure)
    ELSE IF resp.status = BAD_REQUEST /\ Contains(resp.body.text, Sentinel)
         THEN Ok("AlreadyExists")
         ELSE Err(ErrorStatusCode(resp.status))

IndexNames == {"logs-2024", "logs-2025"}
Settings == {"settings_1", "settings_2"}

\* The document store's answers to PUT /<name>: a missing index is created
\* with a 2xx answer, an existing one is refused with 400 and a body that
\* holds the sentinel.
StoreAnswers(name) ==
    IF name \in DOMAIN indices
    THEN {Received(BAD_REQUEST, Readable(t)) :
            t \in {x \in SeqsUpTo(BodyTokens, MaxBody) : Contains(x, Sentinel)}}
    ELSE {Received(c, Readable(<<>>)) : c \in {200, 201}}

IndexInit ==
    /\ indices = [n \in {} |-> ""]
    /\ history = <<>>
    /\ response = None
    /\ classified = Pending

\* One call of Client::ensure_index_exists against the document store.
EnsureIndexExists(name, index_settings) ==
    /\ Len(history) < MaxCalls
    /\ \E resp \in StoreAnswers(name) :
          /\ indices' = IF name \in DOMAIN indices THEN indices
                        ELSE [n \in DOMAIN indices \cup {name} |->
                                IF n = name THEN index_settings ELSE indices[n]]
          /\ history' = Append(history,
                               [name |-> name, settings |-> index_settings,
                                result |-> EnsureIndexExistsResult(resp)])
    /\ UNCHANGED <<response, classified, normVars, bulkVars, fleetVars, lawVars>>

ClassifyInit ==
    /\ indices = [n \in {} |-> ""]
    /\ history = <<>>
    /\ response \in {Some(r) : r \in Responses}
    /\ classified = Pending

\* Client::ensure_index_exists on one response of any kind.
Classify ==
    /\ response.some /\ classified = Pending
    /\ classified' = EnsureIndexExistsResult(response.v)
    /\ UNCHANGED <<indices, history, response, normVars, bulkVars, fleetVars, lawVars>>

\* ------------------------------------------------- submission: ping
\* enum PingError
PingFailed == [kind |-> "PingError::Failed"]
PingErrorStatusCode(code) == [kind |-> "PingError::ErrorStatusCode", code |-> code]

\* Mutant: any transported response counts as a successful ping.
PingResultAnyStatus(resp) ==
    IF ~resp.transported THEN Err(PingFailed) ELSE Ok("unit")

\* Client::ping: map_err(PingError::Failed)?, then the test of the status
PingResult(resp) ==
    IF ~resp.transported THEN Err(PingFailed)
    ELSE IF IsSuccess(resp.status) THEN Ok("unit")
    ELSE Err(PingErrorStatusCode(resp.status))

\* One call of Client::ping, answered by one response of any kind.
Ping ==
    /\ response.some /\ classified = Pending
    /\ classified' = PingResult(response.v)
    /\ UNCHANGED <<indices, history, response, normVars, bulkVars, fleetVars, lawVars>>

\* ------------------------------------------------- submission: bulk
DocIds == {"a", "b"}

\* BulkOperation: the action line (here the JSON it encodes) and the
\* optional source line.
BulkOperationCreate(id) ==
    [action |-> [op |-> "create", id |-> id], source |-> Some([doc |-> id])]
BulkOperationNoSource(id) ==
    [action |-> [op |-> "delete", id |-> id], source |-> None]
BulkOperations ==
    {BulkOperationCreate(id) : id \in DocIds} \cup {BulkOperationNoSource("a")}

\* api_bindings::bulk::ResultItemAction, by its id and by whether it carries
\* an error payload
ResultItemActions ==
    {[id |-> "a", failed |-> FALSE], [id |-> "b", failed |-> FALSE],
     [id |-> "b", failed |-> TRUE]}

\* api_bindings::bulk::ResultItem: four optional actions
ActionNames == {"create", "delete", "index", "update"}
ResultItem(populated, act) ==
    [create |-> IF "create" \in populated THEN Some(act) ELSE None,
     delete |-> IF "delete" \in populated THEN Some(act) ELSE None,
     index |-> IF "index" \in populated THEN Some(act) ELSE None,
     update |-> IF "update" \in populated THEN Some(act) ELSE None]
ResultItems ==
    {ResultItem(m, a) : m \in SUBSET ActionNames, a \in ResultItemActions}
\* the items the store answers a bulk call with in SpecBulk
StoreItems ==
    {ResultItem(m, a) :
        m \in {{}, {"create"}, {"delete"}, {"create", "index"}},
        a \in ResultItemActions}

\* api_bindings::bulk::Response
Headers == {[took |-> 0, errors |-> FALSE], [took |-> 30, errors |-> TRUE]}
BulkResponse(h, items) == [took |-> h.took, errors |-> h.errors, items |-> items]
BulkResponsesOver(S) ==
    {BulkResponse(h, items) : h \in Headers, items \in SeqsUpTo(S, MaxItems)}

\* The HTTP status codes a bulk answer carries; bulk never reads them.
BulkStatuses == {200, 429}
\* What bulk_future.await gives: a transport error, or a response with an
\* HTTP status whose body response.json() decodes or not.
Undecodable(code) == [transported |-> TRUE, status |-> code, decoded |-> None]
Decoded(code, r) == [transported |-> TRUE, status |-> code, decoded |-> Some(r)]
BulkAnswers == {TransportError} \cup
               {Undecodable(code) : code \in BulkStatuses} \cup
               {Decoded(code, r) : code \in BulkStatuses,
                                   r \in BulkResponsesOver(StoreItems)}

\* enum BulkItem
BulkItem(kind, act) == [kind |-> kind, action |-> act]
\* BulkItem::id
BulkItemId(item) == item.action.id

\* convert_to_status, one `if let Some(..)` of the loop body: the warning
\* check, then the push.
PushAction(st, kind, opt) ==
    IF opt.some
    THEN [items |-> Append(st.items, BulkItem(kind, opt.v)),
          already_had_action |-> TRUE,
          warnings |-> IF st.already_had_action
                       THEN Append(st.warnings,
                                   [last_action |-> st.items[Len(st.items)],
                                    this_action |-> opt.v])
                       ELSE st.warnings]
    ELSE st

\* Mutant: only the first populated action of an item is kept.
ConvertItemFirstOnly(st, raw_item) ==
    LET fresh == [st EXCEPT !.already_had_action = FALSE] IN
    IF raw_item.create.some THEN PushAction(fresh, "Create", raw_item.create)
    ELSE IF raw_item.delete.some THEN PushAction(fresh, "Delete", raw_item.delete)
    ELSE IF raw_item.index.some THEN PushAction(fresh, "Index", raw_item.index)
    ELSE PushAction(fresh, "Update", raw_item.update)

\* convert_to_status, the loop body for one raw item
ConvertItem(st, raw_item) ==
    PushAction(
        PushAction(
            PushAction(
                PushAction([st EXCEPT !.already_had_action = FALSE],
                           "Create", raw_item.create),
                "Delete", raw_item.delete),
            "Index", raw_item.index),
        "Update", raw_item.update)

RECURSIVE ConvertItems(_, _, _)
\* convert_to_status, the loop over raw_items from the k-th on
ConvertItems(raw_items, k, st) ==
    IF k > Len(raw_items) THEN st
    ELSE ConvertItems(raw_items, k + 1, ConvertItem(st, raw_items[k]))

Reverse(q) == [i \in 1..Len(q) |-> q[Len(q) + 1 - i]]

\* Mutant: the items are pushed to the front.
ConvertToStatusReversed(resp) ==
    LET st == ConvertItems(resp.items, 1,
                  [items |-> <<>>, already_had_action |-> FALSE, warnings |-> <<>>])
    IN [status |-> [took |-> resp.took, errors |-> resp.errors,
                    items |-> Reverse(st.items)],
        warnings |-> st.warnings]

\* Client::convert_to_status: the BulkStatus and the warnings logged
ConvertToStatus(resp) ==
    LET st == ConvertItems(resp.items, 1,
                  [items |-> <<>>, already_had_action |-> FALSE, warnings |-> <<>>])
    IN [status |-> [took |-> resp.took, errors |-> resp.errors, items |-> st.items],
        warnings |-> st.warnings]

\* Mutant: only the action line of an operation is sent.
OperationLinesActionOnly(op) == <<op.action>>

\* Client::bulk, the flat_map: the lines of one operation
OperationLines(op) ==
    IF op.source.some THEN <<op.action, op.source.v>> ELSE <<op.action>>

RECURSIVE BulkBody(_)
\* Client::bulk, the body sent: the lines of the operations, in order
BulkBody(ops) ==
    IF ops = <<>> THEN <<>>
    ELSE OperationLines(Head(ops)) \o BulkBody(Tail(ops))

\* enum BulkError
BulkFailure == [kind |-> "Failure"]
FailedToDecode == [kind |-> "FailedToDecode"]

\* Mutant: a response that reports errors fails the whole call.
BulkResultStrict(answer) ==
    IF ~answer.transported THEN [result |-> Err(BulkFailure), warnings |-> <<>>]
    ELSE IF ~answer.decoded.some \/ answer.decoded.v.errors
    THEN [result |-> Err(FailedToDecode), warnings |-> <<>>]
    ELSE LET c == ConvertToStatus(answer.decoded.v) IN
         [result |-> Ok(c.status), warnings |-> c.warnings]

\* Client::bulk after the send: map_err(BulkError::Failure)?, then the match
\* on response.json()
BulkResult(answer) ==
    IF ~answer.transported THEN [result |-> Err(BulkFailure), warnings |-> <<>>]
    ELSE IF ~answer.decoded.some
    THEN [result |-> Err(FailedToDecode), warnings |-> <<>>]
    ELSE LET c == ConvertToStatus(answer.decoded.v) IN
         [result |-> Ok(c.status), warnings |-> c.warnings]

BulkInit ==
    /\ operations \in SeqsUpTo(BulkOperations, MaxItems)
    /\ sent = None
    /\ bulk_response = None
    /\ bulk_result = Pending
    /\ warnings = <<>>

\* One call of Client::bulk: the request, the store's answer, the result.
Bulk ==
    /\ bulk_result = Pending /\ ~bulk_response.some
    /\ \E answer \in BulkAnswers :
          /\ sent' = Some(BulkBody(operations))
          /\ bulk_response' = Some(answer)
          /\ bulk_result' = BulkResult(answer).result
          /\ warnings' = BulkResult(answer).warnings
    /\ UNCHANGED <<operations, normVars, indexVars, fleetVars, lawVars>>

ProjectInit ==
    /\ operations = <<>>
    /\ sent = None
    /\ bulk_response \in {Some(Decoded(200, r)) : r \in BulkResponsesOver(ResultItems)}
    /\ bulk_result = Pending
    /\ warnings = <<>>

\* Client::convert_to_status on one decoded response of any shape.
Convert ==
    /\ bulk_result = Pending /\ bulk_response.some
    /\ LET c == ConvertToStatus(bulk_response.v.decoded.v) IN
          /\ bulk_result' = Ok(c.status)
          /\ warnings' = c.warnings
    /\ UNCHANGED <<operations, sent, bulk_response, normVars, indexVars, fleetVars, lawVars>>

\* ------------------------------------------------- specifications
IndexOff ==
    /\ indices = [n \in {} |-> ""]
    /\ history = <<>>
    /\ response = None
    /\ classified = Pending

BulkOff ==
    /\ operations = <<>>
    /\ sent = None
    /\ bulk_response = None
    /\ bulk_result = Pending
    /\ warnings = <<>>

FleetOff ==
    /\ running = 1
    /\ parked = [q \in {} |-> None]

LawOff ==
    /\ error = None
    /\ unexpected = Pending

\* One event through ProcessorFleet::normalize.
Init == InitNormalize /\ IndexOff /\ BulkOff /\ FleetOff /\ LawOff
Next ==
    \/ Normalize
    \/ PollLoader
    \/ \E i \in Fields : PollSource(i)
    \/ SearchResponds
    \/ \E i \in Fields : IoCompletes(i)
    \/ Wake
Spec == Init /\ [][Next]_vars

\* One event through ProcessorFleet::normalize under an executor that polls
\* a woken join again and carries each poll through its arms, with an
\* audit-log search and field-source I/O that eventually answer.
Fairness ==
    /\ WF_vars(Normalize)
    /\ WF_vars(PollLoader)
    /\ \A i \in Fields : WF_vars(PollSource(i))
    /\ WF_vars(SearchResponds)
    /\ \A i \in Fields : WF_vars(IoCompletes(i))
    /\ WF_vars(Wake)
SpecLive == Init /\ [][Next]_vars /\ Fairness

\* ------------------------------------------------- claims: normalization
Kind(i) == Processor.fields[i].kind
Readers == {i \in Fields : Kind(i) = "audit_log"}

\* C1 (single writer before readers).  In a Split pass that declares an
\* AuditLogSource, every read of the latch by Context::audit_log happened
\* after load_audit_log had finished (its result installed, the write
\* handle released); while the write handle is held no reader has obtained
\* the value, and a reader polled before the loader finished is waiting (or
\* was dropped), never finished.
C1_SingleWriterBeforeReaders ==
    (IsSplit /\ Processor.audit_log /\ pc # "start") =>
        \A i \in Fields :
            /\ arms[i].seen.some =>
                  /\ arms[i].seen.v.loader = "ok"
                  /\ ~audit_log_lock.write_held
            /\ arms[i].st = "waiting" => ~arms[i].seen.some
            /\ (i \in Readers /\ arms[Loader].st \notin Finished) =>
                  arms[i].st \in {"new", "waiting", "dropped"}

\* C1 witness: a reader has read the entry in a pass where the search
\* answered after the first poll, so the reader had to wait for the writer.
C1_Witness ==
    /\ IsSplit /\ Processor.audit_log /\ Loader \in ready
    /\ \E i \in Readers : arms[i].seen.some /\ arms[i].seen.v.value.some

\* C2 as stated: with an AuditLogSource declared and a search that found no
\* match, normalize returns Err(NoAuditLogEntry(event_type)), here for the
\* processors none of whose field sources fails on its own.
C2_Original ==
    (pc = "done" /\ IsSplit /\ Processor.audit_log /\ api = NoMatch
        /\ \A i \in Fields : ~Processor.fields[i].fails)
    => result = Err(NoAuditLogEntry(event_type))

\* C2 amended (audit-log absence).  With an AuditLogSource declared, a
\* search that finds no match and at least one field source that reads the
\* audit-log path, normalize emits no NormalizedEvent: it returns Err, which
\* is NoAuditLogEntry(event_type) unless another field source failed with
\* its own error; every reader that read the latch failed.
C2_AbsenceFailsReaders ==
    (pc = "done" /\ IsSplit /\ Processor.audit_log /\ api = NoMatch
        /\ Readers # {})
    => /\ result.tag = "Err"
       /\ \/ result.err = NoAuditLogEntry(event_type)
          \/ \E i \in Fields \ Readers :
                /\ Processor.fields[i].fails
                /\ result.err = FatalSourceError(FieldNames[i])
       /\ \A i \in Readers : arms[i].seen.some => arms[i].st = "err"

\* C2 witness: such a pass ended with NoAuditLogEntry for the event's tag.
C2_Witness ==
    /\ pc = "done" /\ IsSplit /\ Processor.audit_log /\ api = NoMatch
    /\ result = Err(NoAuditLogEntry(event_type))

\* C3 (fail fast).  In SplitProcessor::apply, as soon as the loader or a
\* field source has returned an error the pass is over with Err, and an Ok
\* result exists only when every arm finished Ok.
C3_FailFast ==
    IsSplit =>
        /\ (\E j \in DOMAIN arms : arms[j].st = "err") =>
              pc = "done" /\ result.tag = "Err"
        /\ result.tag = "Ok" => \A j \in DOMAIN arms : arms[j].st = "ok"

\* C3 witness: one arm failed after a sibling had succeeded and while
\* another was still unfinished.
C3_Witness ==
    /\ IsSplit /\ result.tag = "Err"
    /\ \E j, k, l \in DOMAIN arms :
          arms[j].st = "err" /\ arms[k].st = "ok" /\ arms[l].st = "dropped"

\* C4 (audit-log id and JSON).  For every NormalizedEvent returned by
\* SplitProcessor::apply, audit_log_id is Some exactly when source.audit_log
\* is Some, exactly when an AuditLogSource was declared and returned an
\* entry; then the id is the entry's and the JSON is the serialization
\* installed with it.
C4_AuditLogIdIffJson ==
    (IsSplit /\ result.tag = "Ok") =>
        LET e == result.v IN
        /\ e.audit_log_id.some <=> e.source.audit_log.some
        /\ e.audit_log_id.some <=> (Processor.audit_log /\ api.ok /\ api.entry.some)
        /\ e.audit_log_id.some =>
              /\ e.audit_log_id.v = api.entry.v.id
              /\ e.source.audit_log.v = ToValue(api.entry.v).v
              /\ audit_log_lock.value =
                    Some([entry |-> api.entry.v, json |-> e.source.audit_log.v])

\* C4 witness: an event was returned with the id of the entry found.
C4_Witness ==
    /\ IsSplit /\ result.tag = "Ok"
    /\ result.v.audit_log_id = Some(8)

\* C9 (dispatch).  An event whose tag has no registered processor gets
\* Err(SubProcessorNotFound(tag)) with its own tag, and no processor and no
\* source runs; an event with a registered tag runs the processor of that
\* tag only, and normalize returns what that processor returned.
C9_Dispatch ==
    /\ event_type \notin DOMAIN processors =>
          /\ applied = {} /\ arms = NoArms /\ returned = Pending
          /\ pc = "done" => result = Err(SubProcessorNotFound(event_type))
    /\ (event_type \in DOMAIN processors /\ pc \in {"join", "done"}) =>
          /\ applied = {event_type}
          /\ DOMAIN arms = IF Processor.type = "Split"
                           THEN {Loader} \cup Fields ELSE {1}
          /\ pc = "done" => result = returned /\ returned # Pending
          /\ pc = "join" => result = Pending

\* C9 witness: a miss was reported for an unregistered tag.
C9_Witness ==
    /\ pc = "done" /\ event_type = "TYPING_START"
    /\ result = Err(SubProcessorNotFound("TYPING_START"))

\* ---- the outcome of a Split pass as a function of its inputs alone
\* (processor p, search answer, event tag), written from the contract of each
\* arm and not from the join.
NoEntryFor(p, answer) == ~p.audit_log \/ ~answer.ok \/ ~answer.entry.some

\* whether arm j returns Err when it runs to completion
WouldFail(p, answer, j) ==
    LET loaderFails == /\ p.audit_log
                       /\ \/ ~answer.ok
                          \/ answer.entry.some /\ ~answer.entry.v.serializable
    IN IF j = Loader THEN loaderFails
       ELSE IF p.fields[j].kind = "audit_log"
       THEN ~loaderFails /\ (NoEntryFor(p, answer) \/ p.fields[j].fails)
       ELSE p.fields[j].fails

\* the error arm j returns then
ExpectedError(p, answer, tag, j) ==
    IF j = Loader
    THEN IF ~answer.ok THEN FatalSourceError("audit log search failed")
         ELSE FatalSourceError("could not serialize audit log entry to JSON")
    ELSE IF p.fields[j].kind = "audit_log" /\ NoEntryFor(p, answer)
    THEN NoAuditLogEntry(tag)
    ELSE FatalSourceError(FieldNames[j])

FailingArms(p, answer) == {j \in {Loader} \cup Fields : WouldFail(p, answer, j)}

\* the NormalizedEvent of a pass in which no arm fails
ExpectedEvent(p, answer) ==
    LET json == IF NoEntryFor(p, answer) THEN None
                ELSE Some([serialized_id |-> answer.entry.v.id]) IN
    [audit_log_id |-> IF NoEntryFor(p, answer) THEN None ELSE Some(answer.entry.v.id),
     source |-> [gateway |-> Some("source"), audit_log |-> json],
     fields |-> [i \in Fields |->
                   [field |-> FieldNames[i],
                    json |-> IF p.fields[i].kind = "audit_log" THEN json ELSE None]]]

\* the result of the schedule in which every arm completes at its first
\* poll: the error of the first failing arm in declaration order, or the event
InOrder(p, answer, tag) ==
    LET F == FailingArms(p, answer) IN
    IF F = {} THEN Ok(ExpectedEvent(p, answer))
    ELSE Err(ExpectedError(p, answer, tag, CHOOSE j \in F : \A k \in F : j <= k))

\* C11 as stated: the result of SplitProcessor::apply, error included, is
\* the same under every schedule, so it is the result of the schedule in
\* which every arm completes at its first poll.
C11_Original ==
    (pc = "done" /\ IsSplit) => result = InOrder(Processor, api, event_type)

\* C11 amended (field-assembly determinism).  For fixed inputs, whether
\* SplitProcessor::apply succeeds does not depend on the schedule; when it
\* succeeds the NormalizedEvent is the same field by field under every
\* schedule; when it fails the error is that of one of the arms that fail for
\* these inputs (which one depends on the schedule).
C11_Determinism ==
    (pc = "done" /\ IsSplit) =>
        LET F == FailingArms(Processor, api) IN
        /\ F = {} => result = Ok(ExpectedEvent(Processor, api))
        /\ F # {} => \E j \in F :
                        result = Err(ExpectedError(Processor, api, event_type, j))

\* C11 witness: an event was assembled in a pass where the search and the
\* I/O of a field source both completed after the first poll, and a reader
\* had to wait for the entry.
C11_Witness ==
    /\ pc = "done" /\ IsSplit /\ result.tag = "Ok"
    /\ Loader \in ready
    /\ \E i \in Fields : Kind(i) = "io" /\ i \in ready
    /\ \E i \in Readers : arms[i].seen.some /\ arms[i].seen.v.value.some

\* the value the latch holds once load_audit_log has returned Ok
Installed(p, answer) ==
    IF NoEntryFor(p, answer) THEN None
    ELSE Some([entry |-> answer.entry.v, json |-> [serialized_id |-> answer.entry.v.id]])

\* C12, the states: once the loader has returned Ok the latch holds the
\* entry the search found (or None), and every reader that read the latch
\* observed exactly that value.
C12_Observed ==
    (IsSplit /\ Processor.audit_log /\ pc \in {"join", "done"}) =>
        /\ arms[Loader].st = "ok" => audit_log_lock.value = Installed(Processor, api)
        /\ arms[Loader].st # "ok" => audit_log_lock.value = None
        /\ \A i \in Readers : arms[i].seen.some =>
              arms[i].seen.v.value = Installed(Processor, api)

\* C12, the steps: the value changes only in the step in which the loader
\* returns Ok and drops the write handle; a released handle is never taken
\* again; the search is issued only by the first poll of the loader.
C12_Step ==
    (IsSplit /\ Processor.audit_log /\ pc = "join") =>
        /\ audit_log_lock'.value # audit_log_lock.value =>
              /\ audit_log_lock.write_held /\ ~audit_log_lock'.write_held
              /\ audit_log_lock.value = None
              /\ arms[Loader].st \in {"new", "searching"} /\ arms'[Loader].st = "ok"
        /\ ~audit_log_lock.write_held =>
              /\ ~audit_log_lock'.write_held
              /\ audit_log_lock'.value = audit_log_lock.value
        /\ arms[Loader].st # "new" => arms'[Loader].st # "new"
        /\ (arms'[Loader].st = "searching" /\ arms[Loader].st # "searching") =>
              arms[Loader].st = "new"
        /\ arms[Loader].st \in {"ok", "err", "dropped"} =>
              arms'[Loader].st = arms[Loader].st

\* C12 (write-once latch).  In a pass with an AuditLogSource declared the
\* latch value is installed once, by the loader, as it releases the write
\* handle; after the release it never changes; every reader of the pass
\* observes the same, installed, value; the search is issued at most once.
C12_WriteOnce == [] C12_Observed /\ [][C12_Step]_vars

\* C12 witness: two readers of one pass both observed the entry the loader
\* installed after its search had been pending.
C12_Witness ==
    /\ pc = "done" /\ IsSplit /\ Processor.audit_log /\ Loader \in ready
    /\ \E i, k \in Readers :
          /\ i # k /\ arms[i].seen.some /\ arms[k].seen.some
          /\ arms[i].seen.v.value = arms[k].seen.v.value
          /\ arms[i].seen.v.value.some

\* C13 as stated: when a field source fails while the loader is suspended
\* on its search, every reader that was already suspended on the latch (the
\* readers polled before the failing source) fails with NoAuditLogEntry.
C13_Original ==
    (pc = "done" /\ IsSplit /\ arms[Loader].st = "dropped") =>
        \A i \in Readers :
            (\E f \in Fields : f > i /\ arms[f].st = "err") => arms[i].st = "err"

\* C13 amended (cancellation of the writer).  When a field source fails
\* while the loader is suspended on its search, try_join! returns that
\* source's error and drops every unfinished future: the loader is cancelled
\* and its write handle released with the latch still None, and the readers
\* suspended on the latch are cancelled with it: none of them reads the
\* latch or fails, and the error returned is not NoAuditLogEntry.
C13_Cancellation ==
    (pc = "done" /\ IsSplit /\ arms[Loader].st = "dropped") =>
        /\ ~audit_log_lock.write_held /\ audit_log_lock.value = None
        /\ \E f \in Fields \ Readers :
              /\ arms[f].st = "err"
              /\ result = Err(FatalSourceError(FieldNames[f]))
        /\ \A i \in Readers : arms[i].st = "dropped" /\ ~arms[i].seen.some

\* C13 witness: a reader was polled (and suspended) before the source that
\* failed, while the search was pending.
C13_Witness ==
    /\ pc = "done" /\ IsSplit /\ arms[Loader].st = "dropped"
    /\ \E i \in Readers : \E f \in Fields : f > i /\ arms[f].st = "err"

\* C14, the states: a failed apply has exactly one failed arm, every other
\* arm finished Ok before it or was dropped, and the error returned is that
\* arm's.
C14_OneFailed ==
    (IsSplit /\ result.tag = "Err") =>
        \E j \in DOMAIN arms :
            /\ arms[j].st = "err"
            /\ \A k \in DOMAIN arms \ {j} : arms[k].st \in {"ok", "dropped"}
            /\ result = Err(ExpectedError(Processor, api, event_type, j))

\* C14, the steps: the step in which an arm fails is the step in which
\* apply returns, with that arm's error; the result never changes afterwards.
C14_Step ==
    /\ (IsSplit /\ pc = "join") =>
          \A j \in DOMAIN arms :
              (arms'[j].st = "err") =>
                  /\ result = Pending /\ pc' = "done"
                  /\ result' = Err(ExpectedError(Processor, api, event_type, j))
    /\ result # Pending => result' = result

\* C14 (first observed error).  When several arms of one SplitProcessor::apply
\* would fail, apply returns the error of the arm that failed first in the
\* execution; arms that would have failed later are dropped unfinished.
C14_FirstError == [] C14_OneFailed /\ [][C14_Step]_vars

\* C14 witness: the arm that failed is neither the first nor the last of the
\* arms that fail for these inputs: one declared before it was still
\* suspended, one declared after it was never polled.
C14_Witness ==
    /\ IsSplit /\ result.tag = "Err"
    /\ \E j \in Fields :
          /\ arms[j].st = "err"
          /\ \E k \in DOMAIN arms : k < j /\ arms[k].st = "dropped"
                                   /\ WouldFail(Processor, api, k)
          /\ \E l \in DOMAIN arms : l > j /\ arms[l].st = "dropped"
                                   /\ Processor.fields[l].fails

\* C17 (Direct has no latch).  In a pass of a Direct processor no RwLock is
\* created, no write handle held and no load_audit_log arm exists, so no
\* audit-log search is issued by Processor::apply; the Context has no
\* reader, so a source that reads the audit-log path never waits: it fails
\* at its first poll, without having read any latch.
C17_DirectNoLatch ==
    (IsDirect /\ pc \in {"join", "done"}) =>
        /\ audit_log_lock = NoLock
        /\ DOMAIN arms = {1} /\ Loader \notin ready
        /\ arms[1].st \notin {"waiting", "searching"}
        /\ ~arms[1].seen.some
        /\ Processor.fields[1].kind = "audit_log" =>
              /\ pc = "join" => arms[1].st = "new" /\ cur = 1
              /\ pc = "done" => arms[1].st = "err" /\ result.tag = "Err"

\* C17 witness: a Direct source whose own extraction would succeed read the
\* audit-log path and failed.
C17_Witness ==
    /\ IsDirect /\ pc = "done"
    /\ Processor.fields[1] = [kind |-> "audit_log", fails |-> FALSE]
    /\ result.tag = "Err"

\* C20 (no AuditLogSource declared).  In a Split pass whose processor
\* declares no AuditLogSource no write handle is ever held, the latch stays
\* None, no search is issued, a reader of the audit-log path never waits and
\* never obtains a value (it reads None and fails), and an emitted event has
\* audit_log_id = None and source.audit_log = None.
C20_NoSourceDeclared ==
    (IsSplit /\ ~Processor.audit_log /\ pc \in {"join", "done"}) =>
        /\ ~audit_log_lock.write_held /\ audit_log_lock.value = None
        /\ arms[Loader].st \in {"new", "ok"} /\ Loader \notin ready
        /\ \A i \in Readers :
              /\ arms[i].st \in {"new", "err", "dropped"}
              /\ arms[i].seen.some => arms[i].seen.v.value = None /\ arms[i].st = "err"
        /\ result.tag = "Ok" =>
              /\ result.v.audit_log_id = None
              /\ result.v.source.audit_log = None
              /\ Readers = {}

\* C20 witness: the platform had an entry for the event, no AuditLogSource
\* was declared, and a reader of the audit-log path read None and failed.
C20_Witness ==
    /\ IsSplit /\ ~Processor.audit_log /\ pc = "done" /\ api = Match(FirstEntry)
    /\ \E i \in Readers : arms[i].seen.some /\ arms[i].st = "err"
    /\ result = Err(NoAuditLogEntry(event_type))

\* C18 (no interference between passes).  For every pass of concurrent
\* normalize calls on one fleet: its lock is write-held exactly while its
\* own loader is unfinished; the lock holds what its own loader installed,
\* the entry of its own event; a reader waits only on its own writer and
\* observes only its own entry; and its result is a result of the pass run
\* alone (the event of its inputs, or the error of one of its failing arms).
C18_NoInterference ==
    \A p \in Passes :
        LET s == PassStates[p]
            proc == processors[s.event_type] IN
        /\ (s.pc \in {"join", "done"} /\ proc.type = "Direct") =>
              /\ s.audit_log_lock = NoLock
              /\ s.pc = "done" => s.result = Ok(DirectEvent(ContextGateway(proc.fields[1],
                                                                        FieldNames[1]).v))
        /\ (s.pc \in {"join", "done"} /\ proc.type = "Split") =>
              /\ s.audit_log_lock.write_held <=>
                    s.arms[Loader].st \in {"new", "searching"}
              /\ s.audit_log_lock.value =
                    IF s.arms[Loader].st = "ok" THEN Installed(proc, s.api) ELSE None
              /\ \A i \in Fields :
                    /\ s.arms[i].st = "waiting" =>
                          s.arms[Loader].st \in {"searching", "ok"}
                    /\ s.arms[i].seen.some =>
                          s.arms[i].seen.v.value = Installed(proc, s.api)
              /\ s.pc = "done" =>
                    LET F == FailingArms(proc, s.api) IN
                    /\ F = {} => s.result = Ok(ExpectedEvent(proc, s.api))
                    /\ F # {} => \E j \in F :
                          s.result = Err(ExpectedError(proc, s.api, s.event_type, j))

\* C18 witness: while the reader of one pass waits on its own writer (the
\* search for entry 7 is pending), the reader of another pass has read entry
\* 8, installed by that pass's loader.
C18_Witness ==
    \E p, q \in Passes :
        /\ p # q
        /\ PassStates[p].api = Match([id |-> 7, serializable |-> TRUE])
        /\ PassStates[p].pc = "join"
        /\ PassStates[p].arms[1].st = "waiting"
        /\ PassStates[p].audit_log_lock.write_held
        /\ PassStates[q].pc = "join"
        /\ PassStates[q].arms[1].seen.some
        /\ PassStates[q].arms[1].seen.v.value.some
        /\ PassStates[q].arms[1].seen.v.value.v.entry.id = 8

\* C19 (is_unexpected law).  For every ProcessingError value,
\* is_unexpected is false exactly when the value is Drop, and true for
\* SubProcessorNotFound, FatalSourceError and NoAuditLogEntry whatever their
\* payload.
C19_IsUnexpectedLaw ==
    unexpected # Pending =>
        /\ unexpected.v \in BOOLEAN
        /\ ~unexpected.v <=> error.v = Drop
        /\ error.v.kind \in {"SubProcessorNotFound", "FatalSourceError", "NoAuditLogEntry"}
              => unexpected.v

\* C19 witness: is_unexpected was called on Drop and returned false.
C19_Witness ==
    error = Some(Drop) /\ unexpected = Ok(FALSE)

\* C21 (loader outcome by case).  Once load_audit_log has finished in a
\* pass with an AuditLogSource declared, the write handle is released and:
\* a failed search made the loader return the search's error, latch None;
\* no match made it return Ok, latch None; a match that serializes made it
\* return Ok with the latch holding the entry and its JSON; a match that
\* does not serialize made it return FatalSourceError, latch None.
C21_LoaderOutcome ==
    (IsSplit /\ Processor.audit_log /\ pc \in {"join", "done"}
        /\ arms[Loader].st \in Finished) =>
        /\ ~audit_log_lock.write_held
        /\ ~api.ok =>
              /\ arms[Loader].st = "err" /\ audit_log_lock.value = None
              /\ result = Err(FatalSourceError("audit log search failed"))
        /\ (api.ok /\ ~api.entry.some) =>
              arms[Loader].st = "ok" /\ audit_log_lock.value = None
        /\ (api.ok /\ api.entry.some /\ api.entry.v.serializable) =>
              /\ arms[Loader].st = "ok"
              /\ audit_log_lock.value =
                    Some([entry |-> api.entry.v,
                          json |-> [serialized_id |-> api.entry.v.id]])
        /\ (api.ok /\ api.entry.some /\ ~api.entry.v.serializable) =>
              /\ arms[Loader].st = "err" /\ audit_log_lock.value = None
              /\ result = Err(FatalSourceError(
                                "could not serialize audit log entry to JSON"))

\* C21 witness: the search answered, after having been pending, with an
\* entry that does not serialize.
C21_Witness ==
    /\ IsSplit /\ Processor.audit_log /\ Loader \in ready
    /\ api.entry.some /\ ~api.entry.v.serializable
    /\ arms[Loader].st = "err" /\ ~audit_log_lock.write_held

\* the pass has returned and left no arm suspended
Returned ==
    /\ pc = "done" /\ result.tag \in {"Ok", "Err"}
    /\ ~audit_log_lock.write_held
    /\ \A j \in DOMAIN arms : arms[j].st \in {"ok", "err", "dropped"}

\* C22 (deadlock freedom of one pass).  Under fair scheduling, with a
\* search and field-source I/O that terminate, every pass eventually
\* returns Ok or Err with the write handle released, and no reader is left
\* blocked on the latch: each was granted its read or cancelled with the
\* join.
C22_Terminates == <>Returned

\* C22 witness: a reader that was blocked while the search was pending read
\* the latch after a search without match, and the pass returned.
C22_Witness ==
    /\ pc = "done" /\ IsSplit /\ Processor.audit_log
    /\ api = NoMatch /\ Loader \in ready
    /\ \E i \in Readers : arms[i].seen.some /\ arms[i].st = "err"

\* C23, the states: when SplitProcessor::apply has returned, every arm has
\* completed or was dropped and the write handle is not held; an event was
\* returned only with every arm Ok, and its audit_log_id and audit-log JSON
\* are those of the latch as the arms left it.
C23_Joined ==
    (IsSplit /\ pc = "done") =>
        /\ \A j \in DOMAIN arms : arms[j].st \in {"ok", "err", "dropped"}
        /\ ~audit_log_lock.write_held
        /\ result.tag = "Ok" =>
              /\ \A j \in DOMAIN arms : arms[j].st = "ok"
              /\ result.v.audit_log_id =
                    IF audit_log_lock.value.some
                    THEN Some(audit_log_lock.value.v.entry.id) ELSE None
              /\ result.v.source.audit_log =
                    IF audit_log_lock.value.some
                    THEN Some(audit_log_lock.value.v.json) ELSE None

\* C23, the steps: nothing of the pass moves after the return (the latch is
\* not written, no arm runs), and the step that returns an event is the
\* step in which the last of the arms completed.
C23_Step ==
    /\ pc = "done" => UNCHANGED <<audit_log_lock, arms, result, returned, pc>>
    /\ (IsSplit /\ pc = "join" /\ pc' = "done" /\ result'.tag = "Ok") =>
          /\ cur = LastArm
          /\ \A j \in DOMAIN arms \ {LastArm} : arms[j].st = "ok"

\* C23 (no task outlives its pass).  Whenever SplitProcessor::apply returns,
\* every sibling task has completed or been cancelled, no handle on the
\* latch is held and the latch is never written afterwards; the latch is
\* consumed for audit_log_id and the audit-log JSON only once all tasks have
\* succeeded.
C23_NoTaskOutlives == [] C23_Joined /\ [][C23_Step]_vars

\* C23 witness: apply returned an error while the search was pending and a
\* reader was suspended: both were dropped and the handle released.
C23_Witness ==
    /\ IsSplit /\ pc = "done" /\ result.tag = "Err"
    /\ arms[Loader].st = "dropped" /\ Loader \notin ready
    /\ \E i \in Readers : arms[i].st = "dropped"
    /\ ~audit_log_lock.write_held

\* C24, the states: a gateway-path source is never suspended and never
\* reads the latch, and its value is extracted from the event's JSON alone;
\* only a source that reads the audit-log path ever waits for the writer.
C24_GatewayStates ==
    (IsSplit /\ pc \in {"join", "done"}) =>
        \A i \in Fields :
            /\ Kind(i) = "gateway" =>
                  /\ arms[i].st \in {"new", "ok", "err", "dropped"}
                  /\ ~arms[i].seen.some
                  /\ arms[i].st = "ok" => arms[i].val.v.json = None
            /\ arms[i].st = "waiting" => Kind(i) = "audit_log"

\* C24, the steps: the poll of a gateway-path source completes it, Ok or
\* Err, in that very poll, whether or not the write handle is held.
C24_Step ==
    (IsSplit /\ pc = "join") =>
        \A i \in Fields :
            (Kind(i) = "gateway" /\ cur = i /\ cur' # i /\ arms[i].st = "new") =>
                arms'[i].st \in {"ok", "err"}

\* C24 (gateway path is independent of the latch).  Context::gateway
\* completes synchronously from the event's JSON, so a gateway-path source
\* completes while the writer still holds the write handle, and only
\* audit-log readers wait for the writer.
C24_GatewayIndependent == [] C24_GatewayStates /\ [][C24_Step]_vars

\* C24 witness: a gateway-path source has completed while the writer holds
\* the handle and a reader polled before it is waiting.
C24_Witness ==
    /\ IsSplit /\ pc = "join" /\ audit_log_lock.write_held
    /\ arms[Loader].st = "searching"
    /\ \E i, k \in Fields :
          /\ k < i /\ Kind(k) = "audit_log" /\ arms[k].st = "waiting"
          /\ Kind(i) = "gateway" /\ arms[i].st = "ok"

\* C25 (no match is not an error).  With an AuditLogSource declared, a
\* search without match, no field source reading the audit-log path and
\* none failing, SplitProcessor::apply returns Ok with audit_log_id = None
\* and source.audit_log = None.
C25_NoMatchIsOk ==
    (IsSplit /\ pc = "done" /\ Processor.audit_log /\ api = NoMatch
        /\ Readers = {} /\ \A i \in Fields : ~Processor.fields[i].fails) =>
        /\ result.tag = "Ok"
        /\ result.v.audit_log_id = None
        /\ result.v.source.audit_log = None
        /\ arms[Loader].st = "ok"

\* C25 witness: such a pass returned its event after a search that was
\* pending and then found nothing.
C25_Witness ==
    /\ IsSplit /\ pc = "done" /\ Processor.audit_log /\ api = NoMatch
    /\ Readers = {} /\ Loader \in ready
    /\ result.tag = "Ok" /\ result.v.audit_log_id = None

\* Calls of ensure_index_exists against a document store that keeps its
\* contract.
InitIndex == NormalizeOff /\ IndexInit /\ BulkOff /\ FleetOff /\ LawOff
NextIndex == \E name \in IndexNames, index_settings \in Settings :
                EnsureIndexExists(name, index_settings)
SpecIndex == InitIndex /\ [][NextIndex]_vars

\* ensure_index_exists on every kind of response.
InitClassify == NormalizeOff /\ ClassifyInit /\ BulkOff /\ FleetOff /\ LawOff
NextClassify == Classify
SpecClassify == InitClassify /\ [][NextClassify]_vars

\* Calls of bulk: some operations, and any answer of the store.
InitBulk == NormalizeOff /\ IndexOff /\ BulkInit /\ FleetOff /\ LawOff
NextBulk == Bulk
SpecBulk == InitBulk /\ [][NextBulk]_vars

\* convert_to_status on every shape of decoded response.
InitProject == NormalizeOff /\ IndexOff /\ ProjectInit /\ FleetOff /\ LawOff
NextProject == Convert
SpecProject == InitProject /\ [][NextProject]_vars

\* Client::ping on one response of any kind.
InitPing == NormalizeOff /\ ClassifyInit /\ BulkOff /\ FleetOff /\ LawOff
NextPing == Ping
SpecPing == InitPing /\ [][NextPing]_vars

\* ProcessingError::is_unexpected on one error value of any kind.
InitLaw == NormalizeOff /\ IndexOff /\ BulkOff /\ FleetOff /\ LawInit
NextLaw == CallIsUnexpected
SpecLaw == InitLaw /\ [][NextLaw]_vars

\* Concurrent normalize calls on one fleet.
InitFleet == FleetInit /\ IndexOff /\ BulkOff /\ LawOff
NextFleet ==
    \/ Normalize
    \/ PollLoader
    \/ \E i \in Fields : PollSource(i)
    \/ SearchResponds
    \/ Wake
    \/ \E p \in Passes : Switch(p)
SpecFleet == InitFleet /\ [][NextFleet]_vars

\* ------------------------------------------------- claims: submission
\* the text holds resource_already_exists_exception
HasSentinel(text) ==
    \E i \in 1..(Len(text) - 1) :
        text[i] = "resource_already_exists" /\ text[i + 1] = "_exception"

\* C5 (idempotent index creation).  Against a store that keeps its
\* contract, the first ensure_index_exists call for a name returns
\* CreatedSuccessfully and every later call for it AlreadyExists, whatever
\* the settings of each call; a name whose call returned Ok is an index of
\* the store.
C5_IdempotentIndexCreation ==
    \A k \in 1..Len(history) :
        LET first == \A j \in 1..(k - 1) : history[j].name # history[k].name IN
        /\ history[k].result =
              IF first THEN Ok("CreatedSuccessfully") ELSE Ok("AlreadyExists")
        /\ history[k].result.tag = "Ok" => history[k].name \in DOMAIN indices

\* C5 witness: three calls for one name, the later ones with other
\* settings, answered Created, AlreadyExists, AlreadyExists.
C5_Witness ==
    /\ Len(history) >= 3
    /\ history[1].name = history[2].name /\ history[2].name = history[3].name
    /\ history[1].settings # history[2].settings
    /\ history[1].result = Ok("CreatedSuccessfully")
    /\ history[2].result = Ok("AlreadyExists")
    /\ history[3].result = Ok("AlreadyExists")
    /\ indices[history[1].name] = history[1].settings

\* C6 (classification).  ensure_index_exists answers every response by
\* exactly one rule: transport error => Failed; 2xx => CreatedSuccessfully,
\* body unread; other status with unreadable body => BodyReadFailure; 400
\* with the sentinel in the body => AlreadyExists; any other =>
\* ErrorStatusCode(status).
C6_Classification ==
    classified # Pending =>
        LET r == response.v
            success == r.status \in 200..299
        IN
        /\ ~r.transported => classified = Err(Failed)
        /\ (r.transported /\ success) => classified = Ok("CreatedSuccessfully")
        /\ (r.transported /\ ~success /\ ~r.body.readable) =>
              classified = Err(BodyReadFailure)
        /\ (r.transported /\ ~success /\ r.body.readable) =>
              IF r.status = 400 /\ HasSentinel(r.body.text)
              THEN classified = Ok("AlreadyExists")
              ELSE classified = Err(ErrorStatusCode(r.status))

\* C6 witness: a 404 whose body holds the sentinel was answered with
\* ErrorStatusCode(404).
C6_Witness ==
    /\ classified = Err(ErrorStatusCode(404))
    /\ response.v.body.readable /\ HasSentinel(response.v.body.text)

\* the populated actions of a raw item, in field order
Populated(raw) ==
    LET opt(k) == <<raw.create, raw.delete, raw.index, raw.update>>[k]
        kind(k) == <<"Create", "Delete", "Index", "Update">>[k]
        ks == {k \in 1..4 : opt(k).some}
        rank(k) == Cardinality({j \in ks : j <= k})
    IN [n \in 1..Cardinality(ks) |->
           LET k == CHOOSE k \in ks : rank(k) = n IN BulkItem(kind(k), opt(k).v)]

RECURSIVE PopulatedBefore(_, _)
\* the number of populated actions in the first n raw items
PopulatedBefore(raws, n) ==
    IF n = 0 THEN 0 ELSE PopulatedBefore(raws, n - 1) + Len(Populated(raws[n]))

RECURSIVE ExtraBefore(_, _)
\* the number of actions beyond the first, over the first n raw items
ExtraBefore(raws, n) ==
    IF n = 0 THEN 0
    ELSE ExtraBefore(raws, n - 1) +
         (IF Len(Populated(raws[n])) > 1 THEN Len(Populated(raws[n])) - 1 ELSE 0)

\* the store's contract for a bulk call: one item per operation, in order,
\* each with exactly one populated action, which carries the operation's id
KeepsContract(ops, resp) ==
    /\ Len(resp.items) = Len(ops)
    /\ \A i \in 1..Len(ops) :
          /\ Len(Populated(resp.items[i])) = 1
          /\ Populated(resp.items[i])[1].action.id = ops[i].action.id

\* C7 as stated: whatever the store answers, the i-th status item carries
\* the id of the i-th operation.
C7_Original ==
    bulk_result.tag = "Ok" =>
        \A i \in 1..Len(operations) :
            /\ i <= Len(bulk_result.v.items)
            /\ BulkItemId(bulk_result.v.items[i]) = operations[i].action.id

\* C7 amended (bulk order preservation).  When the store's response keeps
\* its contract (one item per submitted operation, in submission order,
\* each with exactly one populated action carrying that operation's id),
\* the status has one item per operation and items[i].id() is the id of the
\* i-th operation.
C7_OrderPreserved ==
    (bulk_result.tag = "Ok" /\ KeepsContract(operations, bulk_response.v.decoded.v)) =>
        /\ Len(bulk_result.v.items) = Len(operations)
        /\ \A i \in 1..Len(operations) :
              BulkItemId(bulk_result.v.items[i]) = operations[i].action.id

\* C7 witness: two operations with different ids, answered by contract,
\* the second one failed.
C7_Witness ==
    /\ bulk_result.tag = "Ok" /\ Len(operations) = 2
    /\ operations[1].action.id = "a" /\ operations[2].action.id = "b"
    /\ KeepsContract(operations, bulk_response.v.decoded.v)
    /\ bulk_result.v.items[2].action.failed

\* C8 (bulk status projection).  The status items are, raw item after raw
\* item, the populated actions of each in the order create, delete, index,
\* update: an item with none adds nothing, one with n adds n; a warning is
\* logged for each action beyond the first of an item (none when every item
\* has at most one, at least one when an item has several).
C8_Projection ==
    bulk_result.tag = "Ok" =>
        LET raws == bulk_response.v.decoded.v.items
            items == bulk_result.v.items
        IN
        /\ Len(items) = PopulatedBefore(raws, Len(raws))
        /\ \A n \in 1..Len(raws) : \A m \in 1..Len(Populated(raws[n])) :
              items[PopulatedBefore(raws, n - 1) + m] = Populated(raws[n])[m]
        /\ Len(warnings) = ExtraBefore(raws, Len(raws))
        /\ (\A n \in 1..Len(raws) : Len(Populated(raws[n])) <= 1) => warnings = <<>>
        /\ (\E n \in 1..Len(raws) : Len(Populated(raws[n])) > 1) => warnings # <<>>

\* C8 witness: a response with an item of three actions after an item of
\* none was projected to three items, with two warnings.
C8_Witness ==
    /\ bulk_result.tag = "Ok"
    /\ Len(bulk_response.v.decoded.v.items) = 2
    /\ Len(Populated(bulk_response.v.decoded.v.items[1])) = 0
    /\ Len(Populated(bulk_response.v.decoded.v.items[2])) = 3
    /\ Len(bulk_result.v.items) = 3 /\ Len(warnings) = 2

\* C10 (bulk errors).  bulk returns Err only for a transport failure
\* (Failure) or an undecodable body (FailedToDecode); every decodable
\* response gives Ok with the response's own took and errors, and every
\* action of the response, failed ones included, is an item of the status.
C10_BulkErrors ==
    bulk_response.some =>
        LET answer == bulk_response.v IN
        /\ ~answer.transported => bulk_result = Err(BulkFailure)
        /\ (answer.transported /\ ~answer.decoded.some) =>
              bulk_result = Err(FailedToDecode)
        /\ (answer.transported /\ answer.decoded.some) =>
              LET r == answer.decoded.v IN   \* whatever answer.status is
              /\ bulk_result.tag = "Ok"
              /\ bulk_result.v.took = r.took
              /\ bulk_result.v.errors = r.errors
              /\ \A n \in 1..Len(r.items) : \A m \in 1..Len(Populated(r.items[n])) :
                    \E i \in 1..Len(bulk_result.v.items) :
                        bulk_result.v.items[i] = Populated(r.items[n])[m]

\* C10 witness: a response of status 429 that reports errors, with a failed
\* action in an item of two actions, came back as Ok with the failed action among its
\* items.
C10_Witness ==
    /\ bulk_result.tag = "Ok" /\ bulk_result.v.errors
    /\ bulk_response.v.status = 429
    /\ \E n \in 1..Len(bulk_response.v.decoded.v.items) :
          /\ Len(Populated(bulk_response.v.decoded.v.items[n])) = 2
          /\ bulk_response.v.decoded.v.items[n].create.v.failed
    /\ \E i \in 1..Len(bulk_result.v.items) : bulk_result.v.items[i].action.failed

\* C15 (ping).  Client::ping returns Ok(()) exactly when the request was
\* transported and the status is 2xx; a transport error gives
\* Err(PingError::Failed); a transported response of another status gives
\* Err(PingError::ErrorStatusCode(status)) with that status, whatever the
\* body.
C15_Ping ==
    (response.some /\ classified # Pending) =>
        LET resp == response.v IN
        /\ classified.tag = "Ok" <=>
              (resp.transported /\ resp.status >= 200 /\ resp.status <= 299)
        /\ ~resp.transported => classified = Err(PingFailed)
        /\ (resp.transported /\ (resp.status < 200 \/ resp.status > 299)) =>
              classified = Err(PingErrorStatusCode(resp.status))

\* C15 witness: a ping answered with status 300 and an unreadable body
\* returned the error that carries 300.
C15_Witness ==
    /\ response = Some(Received(300, Unreadable))
    /\ classified = Err(PingErrorStatusCode(300))

\* the number of operations before the k-th that have a source line
SourcesBefore(ops, k) == Cardinality({j \in 1..(k - 1) : ops[j].source.some})

\* C16 (bulk body).  The body bulk sends holds, for the k-th operation, its
\* action line at position k plus the number of source lines before it,
\* followed at once by its source line when it has one; the body has no
\* other line: its length is the number of operations plus the number of
\* operations with a source.
C16_BulkBody ==
    sent.some =>
        LET ops == operations
            body == sent.v IN
        /\ Len(body) = Len(ops) + SourcesBefore(ops, Len(ops) + 1)
        /\ \A k \in 1..Len(ops) :
              LET at == k + SourcesBefore(ops, k) IN
              /\ body[at] = ops[k].action
              /\ ops[k].source.some => body[at + 1] = ops[k].source.v

\* C16 witness: an operation without a source line was sent between or
\* before operations with one, and the body has more lines than operations.
C16_Witness ==
    /\ sent.some /\ Len(operations) = MaxItems
    /\ ~operations[1].source.some /\ operations[MaxItems].source.some
    /\ Len(sent.v) > Len(operations)
    /\ sent.v[Len(sent.v)] = operations[MaxItems].source.v
====
